---------------------------- MODULE Spec2Model ----------------------------
(***************************************************************************)
(* Reality rotation (config-generator/rotate_settings.py) together with    *)
(* the panel calls of panel_api.py and the probe of domain_tls_checker.py. *)
(*                                                                         *)
(* Python strings that the code inspects character by character (domain    *)
(* names, targets, short ids) are sequences of one-character strings.      *)
(* Python dicts are functions from key names to values; a key that is      *)
(* absent from a dict is absent from the function's DOMAIN.                *)
(***************************************************************************)
EXTENDS Integers, Sequences, FiniteSets, TLC

(***************************************************************************)
(* Bounds of the model.                                                    *)
(***************************************************************************)
\* longest rotation_domains.yaml list that is enumerated
MaxPool == 2
\* number of distinct outcomes drawn from the random sources
NumSeeds == 2

(***************************************************************************)
(* Program constants.                                                      *)
(***************************************************************************)
\* generate_short_ids(4)
ShortIdCount == 4
\* secrets.token_hex(4)
ShortIdBytes == 4

(***************************************************************************)
(* Strings.                                                                *)
(***************************************************************************)
WWW == <<"w", "w", "w", ".">>
PORT443 == <<":", "4", "4", "3">>

\* str.replace("www.", ""): every non-overlapping occurrence, found scanning
\* from the left, is removed.
RECURSIVE StripWww(_)
StripWww(s) ==
    IF Len(s) < Len(WWW) THEN s
    ELSE IF SubSeq(s, 1, Len(WWW)) = WWW
         THEN StripWww(SubSeq(s, Len(WWW) + 1, Len(s)))
         ELSE <<Head(s)>> \o StripWww(Tail(s))

\* str.count('.')
CountDots(s) == Cardinality({i \in 1..Len(s) : s[i] = "."})

\* the part of "host:port" before the first ':' (how a target is read back)
HostOf(t) ==
    LET colons == {i \in 1..Len(t) : t[i] = ":"}
    IN  IF colons = {} THEN t
        ELSE SubSeq(t, 1, (CHOOSE i \in colons : \A j \in colons : i <= j) - 1)

HexDigits == <<"0", "1", "2", "3", "4", "5", "6", "7",
               "8", "9", "a", "b", "c", "d", "e", "f">>

\* bytes.hex(): two lowercase hex digits per byte
RECURSIVE HexOf(_)
HexOf(bytes) ==
    IF bytes = <<>> THEN <<>>
    ELSE <<HexDigits[(Head(bytes) \div 16) + 1], HexDigits[(Head(bytes) % 16) + 1]>>
         \o HexOf(Tail(bytes))

(***************************************************************************)
(* Dicts.                                                                  *)
(***************************************************************************)
EmptyDict == [k \in {} |-> TRUE]

\* d[k] = v
DictSet(d, k, v) == [x \in DOMAIN d \cup {k} |-> IF x = k THEN v ELSE d[x]]

\* d.get(k, default)
DictGet(d, k, default) == IF k \in DOMAIN d THEN d[k] ELSE default

(***************************************************************************)
(* Domain names that appear in the pool and in the panel's serverNames.    *)
(***************************************************************************)
D_ab      == <<"a", ".", "b">>
D_www_ab  == <<"w", "w", "w", ".", "a", ".", "b">>
D_cd      == <<"c", ".", "d">>
D_s_cd    == <<"s", ".", "c", ".", "d">>
\* labels made of w only: one replace pass leaves "www.a.b"
D_wwww_ww_ab == <<"w", "w", "w", "w", ".", "w", "w", ".", "a", ".", "b">>

PoolNames == {D_ab, D_www_ab, D_s_cd, D_wwww_ww_ab}


\* every list of at most MaxPool names (rotation_domains.yaml; a missing or
\* empty file gives the empty list)
Pools == UNION {[1..n -> PoolNames] : n \in 0..MaxPool}

(***************************************************************************)
(* JSON text and the inbound documents the panel can hold.                 *)
(***************************************************************************)
\* A JSON text is its layout and the value it encodes; a text that does not
\* decode has layout "garbled".
JsonText(fmt, val) == [fmt |-> fmt, val |-> val]

\* json.dumps(v): the default layout, whatever layout the value was read from
json_dumps(v) == JsonText("python_default", v)

\* json.loads(t) succeeds
json_loads_ok(t) == t.fmt # "garbled"

\* json.loads(t)
json_loads(t) == t.val

\* a JSON null where a dict is expected
JNull == [jsontype |-> "null"]
IsDict(v) == "jsontype" \notin DOMAIN v

\* key strings: one half of the X25519 pair with private scalar n,
\* urlsafe-base64 without padding
KeyString(half, n) == [half |-> half, scalar |-> n, padding |-> FALSE]

\* the bytes the random source returns for the i-th token of outcome `seed`
token_bytes(seed, i, nbytes) == [j \in 1..nbytes |-> (seed * 97 + i * 59 + j * 31) % 256]

\* secrets.token_hex(nbytes)
token_hex(seed, i, nbytes) == HexOf(token_bytes(seed, i, nbytes))

\* generate_short_ids(count) for outcome `seed` of the random source
generate_short_ids(count, seed) == [i \in 1..count |-> token_hex(seed, i, ShortIdBytes)]

\* private and public key string for outcome `seed` of X25519PrivateKey.generate()
generate_x25519_keys(seed) ==
    [private |-> KeyString("private", seed), public |-> KeyString("public", seed)]

\* INBOUND_ID
InboundId == 1

OldShortIds == <<token_hex(1, 1, ShortIdBytes), <<"d", "e", "a", "d", "b", "e", "e", "f">>>>

\* the realitySettings the panel holds for current server name cur
OldReality(cur, shape) ==
    LET base == [show |-> FALSE,
                 serverNames |-> <<cur, D_s_cd>>,
                 shortIds |-> OldShortIds,
                 target |-> cur \o PORT443,
                 privateKey |-> KeyString("private", 0)]
        settings == [publicKey |-> KeyString("public", 0), fingerprint |-> "chrome"]
    IN  CASE shape = "full" -> DictSet(base, "settings", settings)
          [] shape = "no_settings" -> base
          [] shape = "null_settings" -> DictSet(base, "settings", JNull)
          [] shape = "no_server_names" -> DictSet(base, "serverNames", <<>>)

Inbound(id, remark, text) ==
    [id |-> id, remark |-> remark, port |-> 443, streamSettings |-> text]

RealityInbounds ==
    {Inbound(InboundId, "reality-in",
             JsonText("indented", [network |-> "tcp", security |-> "reality",
                                   realitySettings |-> OldReality(cur, "full")]))
        : cur \in {D_ab, D_www_ab, D_cd}}
    \cup
    {Inbound(InboundId, "reality-in",
             JsonText("indented", [network |-> "tcp", security |-> "reality",
                                   realitySettings |-> OldReality(D_ab, shape)]))
        : shape \in {"no_settings", "null_settings", "no_server_names"}}
    \cup
    {Inbound(InboundId, "reality-in",
             JsonText("indented", [network |-> "tcp", security |-> "reality"]))}

OtherInbounds ==
    {Inbound(InboundId, "tls-in",
             JsonText("indented", [network |-> "tcp", security |-> "tls",
                                   realitySettings |-> OldReality(D_ab, "full")])),
     Inbound(InboundId, "plain-in", JsonText("indented", [network |-> "tcp"])),
     Inbound(InboundId, "broken-in", JsonText("garbled", EmptyDict))}

\* an inbound the rotation is not about
Unrelated == Inbound(InboundId + 1, "other", JsonText("indented", [network |-> "ws"]))

\* what the panel's inbound list can be
PanelStates ==
    {<<Unrelated>>} \cup {<<Unrelated, i>> : i \in RealityInbounds \cup OtherInbounds}

\* the invocations of rotate()
Procs == {1, 2}

VARIABLES
    panel,              \* the panel's inbound list
    rotation_domains,   \* rotation_domains.yaml
    running,            \* the invocations that have been started
    pc,                 \* where each invocation of rotate() stands
    result,             \* the outcome each invocation has reported
    exception,          \* the exception that left rotate() uncaught, if any
    session,            \* rotate(): session
    inbound,            \* rotate(): inbound
    stream_settings,    \* rotate(): stream_settings
    reality_settings,   \* rotate(): reality_settings
    current_main_sni,   \* rotate(): current_main_sni
    domains,            \* rotate(): domains
    available_domains,  \* rotate(): available_domains
    idx,                \* position of the for loop over available_domains
    selected_domain,    \* rotate(): selected_domain (None is the empty string)
    new_snis,           \* rotate(): new_snis
    new_dest,           \* rotate(): new_dest
    new_keys,           \* rotate(): new_private_key, new_public_key
    new_short_ids,      \* rotate(): new_short_ids
    calls,              \* the calls each invocation made to its collaborators
    submitted,          \* the documents each invocation posted to the panel
    fetched,            \* the inbound each invocation got from the panel
    panel0              \* the panel's inbound list before any invocation

vars == <<panel, rotation_domains, running, pc, result, exception, session, inbound,
          stream_settings, reality_settings, current_main_sni, domains,
          available_domains, idx, selected_domain, new_snis, new_dest, new_keys,
          new_short_ids, calls, submitted, fetched, panel0>>

NoKeys == [private |-> KeyString("private", 0), public |-> KeyString("public", 0)]

Locals0 ==
    /\ pc = [p \in Procs |-> "start"]
    /\ result = [p \in Procs |-> "running"]
    /\ exception = [p \in Procs |-> "none"]
    /\ session = [p \in Procs |-> FALSE]
    /\ inbound = [p \in Procs |-> EmptyDict]
    /\ stream_settings = [p \in Procs |-> EmptyDict]
    /\ reality_settings = [p \in Procs |-> EmptyDict]
    /\ current_main_sni = [p \in Procs |-> <<>>]
    /\ domains = [p \in Procs |-> <<>>]
    /\ available_domains = [p \in Procs |-> <<>>]
    /\ idx = [p \in Procs |-> 1]
    /\ selected_domain = [p \in Procs |-> <<>>]
    /\ new_snis = [p \in Procs |-> <<>>]
    /\ new_dest = [p \in Procs |-> <<>>]
    /\ new_keys = [p \in Procs |-> NoKeys]
    /\ new_short_ids = [p \in Procs |-> <<>>]
    /\ calls = [p \in Procs |-> <<>>]
    /\ submitted = [p \in Procs |-> <<>>]
    /\ fetched = [p \in Procs |-> EmptyDict]

\* one invocation of rotate(), on any panel state and any pool
Init ==
    /\ panel \in PanelStates
    /\ panel0 = panel
    /\ rotation_domains \in Pools
    /\ running = {1}
    /\ Locals0

(***************************************************************************)
(* Helpers of the actions.                                                 *)
(***************************************************************************)
\* one call of invocation p to a collaborator, with what it returned
Call(p, fn, arg, ret, outcome) ==
    calls' = [calls EXCEPT ![p] =
                 Append(@, [fn |-> fn, arg |-> arg, ret |-> ret, outcome |-> outcome])]

\* rotate() returns after printing the message for r
Return(p, r) ==
    /\ pc' = [pc EXCEPT ![p] = "done"]
    /\ result' = [result EXCEPT ![p] = r]

\* an exception leaves rotate() uncaught
Raise(p, e) ==
    /\ pc' = [pc EXCEPT ![p] = "done"]
    /\ exception' = [exception EXCEPT ![p] = e]

Goto(p, label) == pc' = [pc EXCEPT ![p] = label]

\* next(i for i in inbound_list if i['id'] == INBOUND_ID), as a list of 0 or 1
FindInbound(inbound_list, id) ==
    LET hits == {i \in 1..Len(inbound_list) : inbound_list[i].id = id}
    IN  IF hits = {} THEN <<>>
        ELSE <<inbound_list[CHOOSE i \in hits : \A j \in hits : i <= j]>>

\* the panel's list after it stored data as the inbound with this id
\* variant of PanelStore: the update is applied as a patch that keeps the
\* nested 'settings' of the stored document
PanelStore_KeepNestedSettings(inbound_list, id, data) ==
    LET patched(old) ==
           LET old_ss == json_loads(old["streamSettings"])
               new_ss == json_loads(data["streamSettings"])
           IN  IF /\ "realitySettings" \in DOMAIN old_ss
                  /\ "settings" \in DOMAIN old_ss["realitySettings"]
                  /\ "realitySettings" \in DOMAIN new_ss
               THEN DictSet(data, "streamSettings",
                            json_dumps(DictSet(new_ss, "realitySettings",
                               DictSet(new_ss["realitySettings"], "settings",
                                       old_ss["realitySettings"]["settings"]))))
               ELSE data
    IN  [i \in 1..Len(inbound_list) |->
            IF inbound_list[i].id = id THEN patched(inbound_list[i])
            ELSE inbound_list[i]]

PanelStore(inbound_list, id, data) ==
    [i \in 1..Len(inbound_list) |->
        IF inbound_list[i].id = id THEN data ELSE inbound_list[i]]

\* [d for d in domains if d.replace("www.", "") != current_root]
FilterDomains(ds, current) ==
    LET current_root == StripWww(current)
        keep(d) == StripWww(d) # current_root
    IN  SelectSeq(ds, keep)

\* variant of AvailableDomains: no fallback to the whole list
AvailableDomains_NoFallback(ds, current) == FilterDomains(ds, current)

\* available_domains before the shuffle: the filtered list, or the whole
\* list when the filter left nothing
AvailableDomains(ds, current) ==
    LET filtered == FilterDomains(ds, current)
    IN  IF filtered = <<>> THEN ds ELSE filtered

\* random.shuffle(s): every order of the same entries
Shuffles(s) ==
    LET n == Len(s)
        perms == {f \in [1..n -> 1..n] : \A i, j \in 1..n : f[i] = f[j] => i = j}
    IN  {[i \in 1..n |-> s[f[i]]] : f \in perms}

\* variant of NewSnis: the "www." sibling is put first
NewSnis_WwwFirst(root_domain) ==
    IF CountDots(root_domain) = 1 THEN <<WWW \o root_domain, root_domain>>
    ELSE <<root_domain>>

\* variant of NewSnis: the "www." sibling is added for every domain
NewSnis_AlwaysWww(root_domain) == <<root_domain, WWW \o root_domain>>

\* new_snis
NewSnis(root_domain) ==
    IF CountDots(root_domain) = 1
    THEN <<root_domain, WWW \o root_domain>>
    ELSE <<root_domain>>

\* new_dest
NewDest(root_domain) == root_domain \o PORT443

\* lines 162-175 can run: reality_settings['settings'] is absent or a dict
MergeOk(rs) == "settings" \in DOMAIN rs => IsDict(rs["settings"])

\* variant of MergeReality: 'settings' is replaced by a new dict that holds
\* only the public key
MergeReality_FreshSettings(rs, snis, short_ids, dest, keys) ==
    LET rs1 == DictSet(rs, "serverNames", snis)
        rs2 == DictSet(rs1, "shortIds", short_ids)
        rs3 == DictSet(rs2, "target", dest)
        rs5 == DictSet(rs3, "settings", [publicKey |-> keys.public])
    IN  DictSet(rs5, "privateKey", keys.private)

\* variant of MergeReality: the new short ids are added to the ones the
\* document holds
MergeReality_ExtendShortIds(rs, snis, short_ids, dest, keys) ==
    LET rs1 == DictSet(rs, "serverNames", snis)
        rs2 == DictSet(rs1, "shortIds", DictGet(rs, "shortIds", <<>>) \o short_ids)
        rs3 == DictSet(rs2, "target", dest)
        rs4 == IF "settings" \notin DOMAIN rs3 THEN DictSet(rs3, "settings", EmptyDict)
               ELSE rs3
        rs5 == DictSet(rs4, "settings", DictSet(rs4["settings"], "publicKey", keys.public))
    IN  DictSet(rs5, "privateKey", keys.private)

\* variant of MergeReality: the new server names are added to the ones the
\* document holds
MergeReality_AppendServerNames(rs, snis, short_ids, dest, keys) ==
    LET rs1 == DictSet(rs, "serverNames", DictGet(rs, "serverNames", <<>>) \o snis)
        rs2 == DictSet(rs1, "shortIds", short_ids)
        rs3 == DictSet(rs2, "target", dest)
        rs4 == IF "settings" \notin DOMAIN rs3 THEN DictSet(rs3, "settings", EmptyDict)
               ELSE rs3
        rs5 == DictSet(rs4, "settings", DictSet(rs4["settings"], "publicKey", keys.public))
    IN  DictSet(rs5, "privateKey", keys.private)

\* variant of MergeReality: the two halves of the pair are written to each
\* other's field
MergeReality_KeysSwapped(rs, snis, short_ids, dest, keys) ==
    LET rs1 == DictSet(rs, "serverNames", snis)
        rs2 == DictSet(rs1, "shortIds", short_ids)
        rs3 == DictSet(rs2, "target", dest)
        rs4 == IF "settings" \notin DOMAIN rs3 THEN DictSet(rs3, "settings", EmptyDict)
               ELSE rs3
        rs5 == DictSet(rs4, "settings", DictSet(rs4["settings"], "publicKey", keys.private))
    IN  DictSet(rs5, "privateKey", keys.public)

\* reality_settings after lines 162-175
MergeReality(rs, snis, short_ids, dest, keys) ==
    LET rs1 == DictSet(rs, "serverNames", snis)
        rs2 == DictSet(rs1, "shortIds", short_ids)
        rs3 == DictSet(rs2, "target", dest)
        rs4 == IF "settings" \notin DOMAIN rs3 THEN DictSet(rs3, "settings", EmptyDict)
               ELSE rs3
        rs5 == DictSet(rs4, "settings", DictSet(rs4["settings"], "publicKey", keys.public))
    IN  DictSet(rs5, "privateKey", keys.private)

\* inbound after lines 178-180
PackBack(inb, ss, rs) ==
    DictSet(inb, "streamSettings", json_dumps(DictSet(ss, "realitySettings", rs)))

(***************************************************************************)
(* rotate(), one action per step.                                          *)
(***************************************************************************)
\* line 75-76 with panel_api.get_panel_session
Authenticate(p) ==
    /\ p \in running
    /\ pc[p] = "start"
    /\ \E outcome \in {"ok", "missing_credentials", "login_failed", "connection_error"} :
          /\ Call(p, "get_panel_session", <<>>, outcome = "ok", outcome)
          /\ session' = [session EXCEPT ![p] = (outcome = "ok")]
          /\ IF outcome = "ok" THEN Goto(p, "get_inbound") /\ UNCHANGED result
             ELSE Return(p, "no_session")
    /\ UNCHANGED <<panel, rotation_domains, running, exception, inbound, stream_settings,
                   reality_settings, current_main_sni, domains, available_domains, idx,
                   selected_domain, new_snis, new_dest, new_keys, new_short_ids,
                   submitted, fetched, panel0>>

\* variant of GetInbound: a failed fetch is tried a second time
GetInbound_Retry(p) ==
    /\ pc[p] = "get_inbound"
    /\ \E outcome \in {"ok", "api_failure", "api_error"} :
          LET target == IF outcome = "ok" THEN FindInbound(panel, InboundId) ELSE <<>>
              found == target # <<>>
              again == ~found /\ Len(calls[p]) < 2
          IN  /\ Call(p, "get_inbound_data", <<>>, found,
                      IF outcome = "ok" /\ ~found THEN "not_found" ELSE outcome)
              /\ IF found
                 THEN /\ inbound' = [inbound EXCEPT ![p] = target[1]]
                      /\ fetched' = [fetched EXCEPT ![p] = target[1]]
                      /\ Goto(p, "parse")
                      /\ UNCHANGED result
                 ELSE /\ IF again THEN UNCHANGED <<pc, result>>
                                  ELSE Return(p, "no_inbound")
                      /\ UNCHANGED <<inbound, fetched>>
    /\ UNCHANGED <<panel, rotation_domains, running, exception, session, stream_settings,
                   reality_settings, current_main_sni, domains, available_domains, idx,
                   selected_domain, new_snis, new_dest, new_keys, new_short_ids,
                   submitted, panel0>>

\* line 79-82 with panel_api.get_inbound_data
GetInbound(p) ==
    /\ pc[p] = "get_inbound"
    /\ \E outcome \in {"ok", "api_failure", "api_error"} :
          LET target == IF outcome = "ok" THEN FindInbound(panel, InboundId) ELSE <<>>
              found == target # <<>>
          IN  /\ Call(p, "get_inbound_data", <<>>, found,
                      IF outcome = "ok" /\ ~found THEN "not_found" ELSE outcome)
              /\ IF found
                 THEN /\ inbound' = [inbound EXCEPT ![p] = target[1]]
                      /\ fetched' = [fetched EXCEPT ![p] = target[1]]
                      /\ Goto(p, "parse")
                      /\ UNCHANGED result
                 ELSE /\ Return(p, "no_inbound")
                      /\ UNCHANGED <<inbound, fetched>>
    /\ UNCHANGED <<panel, rotation_domains, running, exception, session, stream_settings,
                   reality_settings, current_main_sni, domains, available_domains, idx,
                   selected_domain, new_snis, new_dest, new_keys, new_short_ids,
                   submitted, panel0>>

\* variant of SecurityIsReality: an absent security mode passes
SecurityIsReality_AbsentPasses(ss) == DictGet(ss, "security", "reality") = "reality"

\* line 87: stream_settings.get('security') == 'reality'
SecurityIsReality(ss) == DictGet(ss, "security", "None") = "reality"

\* line 84-97
ParseSettings(p) ==
    /\ pc[p] = "parse"
    /\ LET text == inbound[p]["streamSettings"]
           ss == json_loads(text)
           rs == DictGet(ss, "realitySettings", EmptyDict)
           current_snis == DictGet(rs, "serverNames", << <<>> >>)
       IN  IF ~json_loads_ok(text)
           THEN /\ Return(p, "parse_error")
                /\ UNCHANGED <<stream_settings, reality_settings, current_main_sni>>
           ELSE /\ stream_settings' = [stream_settings EXCEPT ![p] = ss]
                /\ IF ~SecurityIsReality(ss)
                   THEN /\ Return(p, "not_reality")
                        /\ UNCHANGED <<reality_settings, current_main_sni>>
                   ELSE /\ reality_settings' = [reality_settings EXCEPT ![p] = rs]
                        /\ current_main_sni' = [current_main_sni EXCEPT ![p] =
                              IF current_snis # <<>> THEN current_snis[1] ELSE <<>>]
                        /\ Goto(p, "load_domains")
                        /\ UNCHANGED result
    /\ UNCHANGED <<panel, rotation_domains, running, exception, session, inbound, domains,
                   available_domains, idx, selected_domain, new_snis, new_dest, new_keys,
                   new_short_ids, calls, submitted, fetched, panel0>>

\* line 102-105 with load_rotation_domains
LoadDomains(p) ==
    /\ pc[p] = "load_domains"
    /\ domains' = [domains EXCEPT ![p] = rotation_domains]
    /\ IF rotation_domains = <<>>
       THEN Return(p, "no_domains")
       ELSE Goto(p, "filter") /\ UNCHANGED result
    /\ UNCHANGED <<panel, rotation_domains, running, exception, session, inbound,
                   stream_settings, reality_settings, current_main_sni,
                   available_domains, idx, selected_domain, new_snis, new_dest, new_keys,
                   new_short_ids, calls, submitted, fetched, panel0>>

\* line 107-121
FilterAndShuffle(p) ==
    /\ pc[p] = "filter"
    /\ \E order \in Shuffles(AvailableDomains(domains[p], current_main_sni[p])) :
          /\ available_domains' = [available_domains EXCEPT ![p] = order]
          /\ Goto(p, IF order = <<>> THEN "selected" ELSE "probe")
    /\ idx' = [idx EXCEPT ![p] = 1]
    /\ selected_domain' = [selected_domain EXCEPT ![p] = <<>>]
    /\ UNCHANGED <<panel, rotation_domains, running, result, exception, session, inbound,
                   stream_settings, reality_settings, current_main_sni, domains,
                   new_snis, new_dest, new_keys, new_short_ids, calls, submitted,
                   fetched, panel0>>

(***************************************************************************)
(* domain_tls_checker.check_domain_tls13.  What the network does with one  *)
(* probe: the connection and the handshake complete and ssock.version()    *)
(* returns a version, or one of the two raises.                            *)
(***************************************************************************)
TlsVersions == {"TLSv1.3", "TLSv1.2", "TLSv1.1", "None"}

ProbeErrors ==
    {"socket.timeout", "ssl.SSLError", "socket.gaierror", "ConnectionRefusedError",
     "OSError"}

NetOutcomes ==
    [raised : {"none"}, version : TlsVersions] \cup [raised : ProbeErrors, version : {""}]

\* variant of check_domain_tls13: any completed handshake passes
check_domain_tls13_AnyVersion(net) ==
    CASE net.raised = "none"                   -> TRUE
      [] net.raised = "socket.timeout"         -> FALSE
      [] net.raised = "ssl.SSLError"           -> FALSE
      [] net.raised = "socket.gaierror"        -> FALSE
      [] net.raised = "ConnectionRefusedError" -> FALSE
      [] OTHER                                 -> FALSE

\* line 9-42: the value returned for one outcome of the network
check_domain_tls13(net) ==
    CASE net.raised = "none"                   ->
            IF net.version = "TLSv1.3" THEN TRUE ELSE FALSE
      [] net.raised = "socket.timeout"         -> FALSE
      [] net.raised = "ssl.SSLError"           -> FALSE
      [] net.raised = "socket.gaierror"        -> FALSE
      [] net.raised = "ConnectionRefusedError" -> FALSE
      [] OTHER                                 -> FALSE

\* variant of Probe: the candidate is selected whatever the probe returned
Probe_Unchecked(p) ==
    /\ pc[p] = "probe"
    /\ idx[p] <= Len(available_domains[p])
    /\ LET clean_domain == StripWww(available_domains[p][idx[p]])
       IN  \E ok \in BOOLEAN :
              /\ Call(p, "check_domain_tls13", clean_domain, ok,
                      IF ok THEN "TLSv1.3" ELSE "failed")
              /\ selected_domain' = [selected_domain EXCEPT ![p] = clean_domain]
              /\ Goto(p, "selected")
    /\ UNCHANGED <<panel, rotation_domains, running, result, exception, session, inbound,
                   stream_settings, reality_settings, current_main_sni, domains,
                   available_domains, idx, new_snis, new_dest, new_keys, new_short_ids,
                   submitted, fetched, panel0>>

\* variant of Probe: the loop does not stop at the first candidate that
\* passes, the last one that passes is selected
Probe_NoBreak(p) ==
    /\ pc[p] = "probe"
    /\ idx[p] <= Len(available_domains[p])
    /\ LET clean_domain == StripWww(available_domains[p][idx[p]])
       IN  \E ok \in BOOLEAN :
              /\ Call(p, "check_domain_tls13", clean_domain, ok,
                      IF ok THEN "TLSv1.3" ELSE "failed")
              /\ IF ok
                 THEN selected_domain' = [selected_domain EXCEPT ![p] = clean_domain]
                 ELSE UNCHANGED selected_domain
              /\ idx' = [idx EXCEPT ![p] = @ + 1]
              /\ IF idx[p] = Len(available_domains[p])
                 THEN Goto(p, "selected") ELSE UNCHANGED pc
    /\ UNCHANGED <<panel, rotation_domains, running, result, exception, session, inbound,
                   stream_settings, reality_settings, current_main_sni, domains,
                   available_domains, new_snis, new_dest, new_keys, new_short_ids,
                   submitted, fetched, panel0>>

\* variant of Probe: the candidate that passed is selected as the pool
\* writes it
Probe_SelectAsWritten(p) ==
    /\ pc[p] = "probe"
    /\ idx[p] <= Len(available_domains[p])
    /\ LET clean_domain == StripWww(available_domains[p][idx[p]])
       IN  \E net \in NetOutcomes :
              LET ok == check_domain_tls13(net) IN
              /\ Call(p, "check_domain_tls13", clean_domain, ok,
                      IF ok THEN "TLSv1.3" ELSE "failed")
              /\ IF ok
                 THEN /\ selected_domain' =
                            [selected_domain EXCEPT ![p] = available_domains[p][idx[p]]]
                      /\ Goto(p, "selected")
                      /\ UNCHANGED idx
                 ELSE /\ idx' = [idx EXCEPT ![p] = @ + 1]
                      /\ IF idx[p] = Len(available_domains[p])
                         THEN Goto(p, "selected") ELSE UNCHANGED pc
                      /\ UNCHANGED selected_domain
    /\ UNCHANGED <<panel, rotation_domains, running, result, exception, session, inbound,
                   stream_settings, reality_settings, current_main_sni, domains,
                   available_domains, new_snis, new_dest, new_keys, new_short_ids,
                   submitted, fetched, panel0>>

\* line 122-131, one pass of the loop, with
\* domain_tls_checker.check_domain_tls13
Probe(p) ==
    /\ pc[p] = "probe"
    /\ idx[p] <= Len(available_domains[p])
    /\ LET clean_domain == StripWww(available_domains[p][idx[p]])
       IN  \E net \in NetOutcomes :
              LET ok == check_domain_tls13(net) IN
              /\ Call(p, "check_domain_tls13", clean_domain, ok,
                      IF ok THEN "TLSv1.3" ELSE "failed")
              /\ IF ok
                 THEN /\ selected_domain' = [selected_domain EXCEPT ![p] = clean_domain]
                      /\ Goto(p, "selected")
                      /\ UNCHANGED idx
                 ELSE /\ idx' = [idx EXCEPT ![p] = @ + 1]
                      /\ IF idx[p] = Len(available_domains[p])
                         THEN Goto(p, "selected") ELSE UNCHANGED pc
                      /\ UNCHANGED selected_domain
    /\ UNCHANGED <<panel, rotation_domains, running, result, exception, session, inbound,
                   stream_settings, reality_settings, current_main_sni, domains,
                   available_domains, new_snis, new_dest, new_keys, new_short_ids,
                   submitted, fetched, panel0>>

\* variant of BuildSni: with no candidate validated the first candidate is
\* used
BuildSni_FirstCandidate(p) ==
    /\ pc[p] = "selected"
    /\ LET root_domain == IF selected_domain[p] = <<>>
                          THEN StripWww(available_domains[p][1])
                          ELSE selected_domain[p]
       IN  /\ new_snis' = [new_snis EXCEPT ![p] = NewSnis(root_domain)]
           /\ new_dest' = [new_dest EXCEPT ![p] = NewDest(root_domain)]
           /\ selected_domain' = [selected_domain EXCEPT ![p] = root_domain]
    /\ Goto(p, "generate_keys")
    /\ UNCHANGED <<panel, rotation_domains, running, result, exception, session, inbound,
                   stream_settings, reality_settings, current_main_sni, domains,
                   available_domains, idx, new_keys, new_short_ids,
                   calls, submitted, fetched, panel0>>

\* line 133-148
BuildSni(p) ==
    /\ pc[p] = "selected"
    /\ IF selected_domain[p] = <<>>
       THEN /\ Return(p, "no_valid_domain")
            /\ UNCHANGED <<new_snis, new_dest>>
       ELSE /\ new_snis' = [new_snis EXCEPT ![p] = NewSnis(selected_domain[p])]
            /\ new_dest' = [new_dest EXCEPT ![p] = NewDest(selected_domain[p])]
            /\ Goto(p, "generate_keys")
            /\ UNCHANGED result
    /\ UNCHANGED <<panel, rotation_domains, running, exception, session, inbound,
                   stream_settings, reality_settings, current_main_sni, domains,
                   available_domains, idx, selected_domain, new_keys, new_short_ids,
                   calls, submitted, fetched, panel0>>

\* variant of GenerateKeys: the exception of the key generator is swallowed
\* and the rotation goes on with the keys it has
GenerateKeys_Swallowed(p) ==
    /\ pc[p] = "generate_keys"
    /\ \E seed \in 0..NumSeeds :
          IF seed = 0
          THEN /\ Call(p, "generate_x25519_keys", <<>>, FALSE, "raised")
               /\ UNCHANGED new_keys
          ELSE /\ Call(p, "generate_x25519_keys", <<>>, TRUE, "ok")
               /\ new_keys' = [new_keys EXCEPT ![p] = generate_x25519_keys(seed)]
    /\ Goto(p, "generate_short_ids")
    /\ UNCHANGED <<panel, rotation_domains, running, result, exception, session, inbound,
                   stream_settings, reality_settings, current_main_sni, domains,
                   available_domains, idx, selected_domain, new_snis, new_dest,
                   new_short_ids, submitted, fetched, panel0>>

\* line 151 with generate_x25519_keys, which returns a pair or raises
GenerateKeys(p) ==
    /\ pc[p] = "generate_keys"
    /\ \E seed \in 0..NumSeeds :
          IF seed = 0
          THEN /\ Call(p, "generate_x25519_keys", <<>>, FALSE, "raised")
               /\ Raise(p, "generate_x25519_keys")
               /\ UNCHANGED new_keys
          ELSE /\ Call(p, "generate_x25519_keys", <<>>, TRUE, "ok")
               /\ new_keys' = [new_keys EXCEPT ![p] = generate_x25519_keys(seed)]
               /\ Goto(p, "generate_short_ids")
               /\ UNCHANGED exception
    /\ UNCHANGED <<panel, rotation_domains, running, result, session, inbound,
                   stream_settings, reality_settings, current_main_sni, domains,
                   available_domains, idx, selected_domain, new_snis, new_dest,
                   new_short_ids, submitted, fetched, panel0>>

\* line 154 with generate_short_ids
GenerateShortIds(p) ==
    /\ pc[p] = "generate_short_ids"
    /\ \E seed \in 1..NumSeeds :
          new_short_ids' = [new_short_ids EXCEPT ![p] =
                               generate_short_ids(ShortIdCount, seed)]
    /\ Call(p, "generate_short_ids", <<>>, TRUE, "ok")
    /\ Goto(p, "merge")
    /\ UNCHANGED <<panel, rotation_domains, running, result, exception, session, inbound,
                   stream_settings, reality_settings, current_main_sni, domains,
                   available_domains, idx, selected_domain, new_snis, new_dest, new_keys,
                   submitted, fetched, panel0>>

\* line 160-180
Merge(p) ==
    /\ pc[p] = "merge"
    /\ IF MergeOk(reality_settings[p])
       THEN LET rs == MergeReality(reality_settings[p], new_snis[p], new_short_ids[p],
                                   new_dest[p], new_keys[p])
            IN  /\ reality_settings' = [reality_settings EXCEPT ![p] = rs]
                /\ stream_settings' = [stream_settings EXCEPT ![p] =
                                          DictSet(@, "realitySettings", rs)]
                /\ inbound' = [inbound EXCEPT ![p] = PackBack(@, stream_settings[p], rs)]
                /\ Goto(p, "update")
                /\ UNCHANGED exception
       ELSE /\ Raise(p, "TypeError")
            /\ UNCHANGED <<reality_settings, stream_settings, inbound>>
    /\ UNCHANGED <<panel, rotation_domains, running, result, session, current_main_sni,
                   domains, available_domains, idx, selected_domain, new_snis, new_dest,
                   new_keys, new_short_ids, calls, submitted, fetched, panel0>>

\* line 184-191 (first part) with panel_api.update_inbound: the panel stores
\* the posted document and answers success, or rejects it, or the request
\* fails before or after the panel stored it
UpdateInbound(p) ==
    /\ pc[p] = "update"
    /\ \E outcome \in {"ok", "rejected", "request_error", "response_error"} :
          LET success == (outcome = "ok")
          IN  /\ Call(p, "update_inbound", <<>>, success, outcome)
              /\ submitted' = [submitted EXCEPT ![p] = Append(@, inbound[p])]
              /\ panel' = IF outcome \in {"ok", "response_error"}
                          THEN PanelStore(panel, InboundId, inbound[p])
                          ELSE panel
              /\ IF success
                 THEN /\ result' = [result EXCEPT ![p] = "success"]
                      /\ Goto(p, "sync")
                 ELSE Return(p, "update_failed")
    /\ UNCHANGED <<rotation_domains, running, exception, session, inbound,
                   stream_settings, reality_settings, current_main_sni, domains,
                   available_domains, idx, selected_domain, new_snis, new_dest, new_keys,
                   new_short_ids, fetched, panel0>>

\* the ways sync_configs.main() can end: it returns, or the publish step
\* fails with an error (PublishFailed), which in Python is an exception
sync_configs_main == {"ok", "raised"}

\* line 188-189: sync_configs.main() is called bare, with no handler around it
SyncConfigs(p) ==
    /\ pc[p] = "sync"
    /\ \E outcome \in sync_configs_main :
          LET ok == outcome = "ok" IN
          /\ Call(p, "sync_configs.main", <<>>, ok, outcome)
          /\ IF ok THEN Goto(p, "done") /\ UNCHANGED exception
             ELSE Raise(p, "sync_configs")
    /\ UNCHANGED <<panel, rotation_domains, running, result, session, inbound,
                   stream_settings, reality_settings, current_main_sni, domains,
                   available_domains, idx, selected_domain, new_snis, new_dest, new_keys,
                   new_short_ids, submitted, fetched, panel0>>

Next ==
    \E p \in Procs :
       \/ Authenticate(p)
       \/ GetInbound(p)
       \/ ParseSettings(p)
       \/ LoadDomains(p)
       \/ FilterAndShuffle(p)
       \/ Probe(p)
       \/ BuildSni(p)
       \/ GenerateKeys(p)
       \/ GenerateShortIds(p)
       \/ Merge(p)
       \/ UpdateInbound(p)
       \/ SyncConfigs(p)

Spec == Init /\ [][Next]_vars

(***************************************************************************)
(* check_domain_tls13 on its own, as the self-test block of                *)
(* domain_tls_checker.py runs it: every name of a list is checked once,    *)
(* against any outcome of the network.                                     *)
(***************************************************************************)
InitTls ==
    /\ panel = <<Unrelated>>
    /\ panel0 = panel
    /\ rotation_domains \in Pools
    /\ running = {1}
    /\ Locals0

\* line 46-51: one call and its verdict
SelfTest(p) ==
    /\ p \in running
    /\ pc[p] = "start"
    /\ idx[p] <= Len(rotation_domains)
    /\ \E net \in NetOutcomes :
          /\ Call(p, "check_domain_tls13", rotation_domains[idx[p]],
                  check_domain_tls13(net), net)
          /\ idx' = [idx EXCEPT ![p] = @ + 1]
    /\ UNCHANGED <<panel, rotation_domains, running, pc, result, exception, session,
                   inbound, stream_settings, reality_settings, current_main_sni, domains,
                   available_domains, selected_domain, new_snis, new_dest, new_keys,
                   new_short_ids, submitted, fetched, panel0>>

NextTls == \E p \in Procs : SelfTest(p)

SpecTls == InitTls /\ [][NextTls]_vars

(***************************************************************************)
(* Two invocations of rotate() that overlap on the same inbound: nothing   *)
(* in rotate() or panel_api keeps a second run from starting while the     *)
(* first is between its fetch and its update.                              *)
(***************************************************************************)
RacePanel ==
    <<Unrelated,
      Inbound(InboundId, "reality-in",
              JsonText("indented", [network |-> "tcp", security |-> "reality",
                                    realitySettings |-> OldReality(D_cd, "full")]))>>

RacePool == <<D_ab, D_s_cd>>

InitRace ==
    /\ panel = RacePanel
    /\ panel0 = panel
    /\ rotation_domains = RacePool
    /\ running = Procs
    /\ Locals0

SpecRace == InitRace /\ [][Next]_vars

(***************************************************************************)
(* Reading the history of an invocation.                                   *)
(***************************************************************************)
\* the positions in calls[p] of the calls to fn
CallIdx(p, fn) == {i \in 1..Len(calls[p]) : calls[p][i].fn = fn}

\* the positions of the calls to fn that returned a result (True, a session,
\* an inbound, a key pair)
OkIdx(p, fn) == {i \in CallIdx(p, fn) : calls[p][i].ret}

\* the probes of invocation p, in the order they were made
Probes(p) ==
    LET isProbe(c) == c.fn = "check_domain_tls13"
    IN  SelectSeq(calls[p], isProbe)

\* the decoded realitySettings of a posted or fetched inbound
RealityOf(doc) == json_loads(doc["streamSettings"])["realitySettings"]

\* the states in which invocation p has posted a document
HasSubmitted(p) == submitted[p] # <<>>

\* the document invocation p posted
Sent(p) == submitted[p][1]

\* rotate() ended before the update step: a printed abort or an exception
\* raised by key generation or by the merge
FailedEarly(p) ==
    /\ pc[p] = "done"
    /\ \/ result[p] \in {"no_session", "no_inbound", "parse_error", "not_reality",
                         "no_domains", "no_valid_domain"}
       \/ exception[p] \in {"generate_x25519_keys", "TypeError"}

(***************************************************************************)
(* C1: update_inbound is called at most once per invocation, and only      *)
(* after authentication, the fetch, the decoding of the stream settings,   *)
(* the security check, the selection of a domain that passed its probe,    *)
(* key and short-id generation and the merge have all succeeded, in that   *)
(* order; an invocation that failed at an earlier step made no update call *)
(* and, while no update call has been made, the panel holds what it held.  *)
(***************************************************************************)
C1_UpdateOnlyAtTheEnd ==
    /\ \A p \in Procs :
          LET upd == CallIdx(p, "update_inbound")
          IN  /\ Cardinality(upd) <= 1
              /\ Cardinality(upd) = Len(submitted[p])
              /\ FailedEarly(p) => upd = {}
              /\ \A u \in upd :
                    /\ \E a \in OkIdx(p, "get_panel_session") :
                       \E f \in OkIdx(p, "get_inbound_data") :
                       \E c \in OkIdx(p, "check_domain_tls13") :
                       \E k \in OkIdx(p, "generate_x25519_keys") :
                       \E s \in OkIdx(p, "generate_short_ids") :
                          a < f /\ f < c /\ c < k /\ k < s /\ s < u
                    /\ json_loads_ok(fetched[p]["streamSettings"])
                    /\ json_loads(fetched[p]["streamSettings"])["security"] = "reality"
                    /\ RealityOf(Sent(p))["serverNames"][1] = selected_domain[p]
                    /\ RealityOf(Sent(p))["privateKey"] = new_keys[p].private
                    /\ RealityOf(Sent(p))["settings"]["publicKey"] = new_keys[p].public
                    /\ RealityOf(Sent(p))["shortIds"] = new_short_ids[p]
                    /\ exception[p] \in {"none", "sync_configs"}
    /\ (\A p \in Procs : CallIdx(p, "update_inbound") = {}) => panel = panel0

\* an invocation whose one update call the panel accepted
C1_Witness ==
    \E p \in Procs :
       /\ Cardinality(CallIdx(p, "update_inbound")) = 1
       /\ result[p] = "success"
       /\ panel # panel0

(***************************************************************************)
(* C2: the domain in a posted document, serverNames[0] and the host of     *)
(* target, is the domain of a probe of this invocation that returned True, *)
(* made before the update call; it is the last probe made.                 *)
(***************************************************************************)
C2_SubmittedDomainWasValidated ==
    \A p \in Procs :
       HasSubmitted(p) =>
          LET rs == RealityOf(Sent(p))
              ps == Probes(p)
          IN  /\ ps # <<>>
              /\ ps[Len(ps)].ret
              /\ ps[Len(ps)].arg = rs["serverNames"][1]
              /\ ps[Len(ps)].arg = HostOf(rs["target"])
              /\ \A u \in CallIdx(p, "update_inbound") :
                    \A c \in CallIdx(p, "check_domain_tls13") : c < u

\* a document was posted after an earlier candidate had failed its probe
C2_Witness ==
    \E p \in Procs :
       /\ HasSubmitted(p)
       /\ Len(Probes(p)) = 2
       /\ ~Probes(p)[1].ret
       /\ Probes(p)[1].arg # Probes(p)[2].arg

(***************************************************************************)
(* Reading the pool an invocation works on.                                *)
(***************************************************************************)
\* invocation p has loaded a non-empty pool and built its candidate list
HasCandidates(p) ==
    pc[p] \in {"probe", "selected", "generate_keys", "generate_short_ids", "merge",
               "update", "sync", "done"}
    /\ domains[p] # <<>>

\* some pool entry differs from the current domain after normalization
SomeOtherDomain(p) ==
    \E i \in 1..Len(domains[p]) :
       StripWww(domains[p][i]) # StripWww(current_main_sni[p])

\* a and b hold the same entries the same number of times
SameEntries(a, b) ==
    /\ Len(a) = Len(b)
    /\ \A d \in {a[i] : i \in 1..Len(a)} \cup {b[i] : i \in 1..Len(b)} :
          Cardinality({i \in 1..Len(a) : a[i] = d})
             = Cardinality({i \in 1..Len(b) : b[i] = d})

(***************************************************************************)
(* C3: when some pool entry differs from the current domain after          *)
(* normalization, every candidate that is probed has a normalized form     *)
(* different from the normalized current domain, and so has the domain     *)
(* that is selected and committed, which is never the current domain       *)
(* itself: that one is selected again only on the fallback path.           *)
(***************************************************************************)
C3_ProbedDiffersFromCurrent ==
    \A p \in Procs :
       (HasCandidates(p) /\ SomeOtherDomain(p)) =>
          /\ \A i \in 1..Len(Probes(p)) :
                StripWww(available_domains[p][i]) # StripWww(current_main_sni[p])
          /\ selected_domain[p] # <<>> =>
                /\ StripWww(selected_domain[p]) # StripWww(current_main_sni[p])
                /\ selected_domain[p] # current_main_sni[p]
          /\ HasSubmitted(p) =>
                /\ StripWww(RealityOf(Sent(p))["serverNames"][1])
                      # StripWww(current_main_sni[p])
                /\ RealityOf(Sent(p))["serverNames"][1] # current_main_sni[p]

C5_FirstPassingCandidateInOrder ==
    \A p \in Procs :
       LET ps == Probes(p)
           av == available_domains[p]
       IN  /\ Len(ps) <= Len(av)
           /\ \A i \in 1..Len(ps) : ps[i].arg = StripWww(av[i])
           /\ \A i \in 1..Len(ps) : i < Len(ps) => ~ps[i].ret
           /\ selected_domain[p] # <<>> =>
                 /\ ps # <<>>
                 /\ ps[Len(ps)].ret
                 /\ selected_domain[p] = ps[Len(ps)].arg
           /\ (ps # <<>> /\ ps[Len(ps)].ret) => selected_domain[p] = ps[Len(ps)].arg
           /\ (HasCandidates(p) /\ pc[p] # "probe" /\ selected_domain[p] = <<>>) =>
                 /\ Len(ps) = Len(av)
                 /\ \A i \in 1..Len(ps) : ~ps[i].ret

\* the second candidate of the order was selected after the first one failed,
\* and the rotation has gone on past the loop
C5_Witness ==
    \E p \in Procs :
       /\ Len(available_domains[p]) = 2
       /\ Len(Probes(p)) = 2
       /\ ~Probes(p)[1].ret
       /\ selected_domain[p] = StripWww(available_domains[p][2])
       /\ pc[p] = "done"

\* every candidate of invocation p has been probed and has failed
AllCandidatesFailed(p) ==
    /\ HasCandidates(p)
    /\ Len(Probes(p)) = Len(available_domains[p])
    /\ \A i \in 1..Len(Probes(p)) : ~Probes(p)[i].ret

(***************************************************************************)
(* C6: once every candidate has failed validation the invocation only      *)
(* ends, with the no-valid-domain failure: no key pair and no short ids    *)
(* are generated, the inbound document is as fetched, update_inbound is    *)
(* not called, the publish step is not triggered, the panel is untouched.  *)
(***************************************************************************)
C6_NoValidDomainAborts ==
    \A p \in Procs :
       AllCandidatesFailed(p) =>
          /\ pc[p] \in {"selected", "done"}
          /\ pc[p] = "done" => result[p] = "no_valid_domain"
          /\ exception[p] = "none"
          /\ selected_domain[p] = <<>>
          /\ CallIdx(p, "generate_x25519_keys") = {}
          /\ CallIdx(p, "generate_short_ids") = {}
          /\ new_keys[p] = NoKeys
          /\ new_short_ids[p] = <<>>
          /\ inbound[p] = fetched[p]
          /\ CallIdx(p, "update_inbound") = {}
          /\ submitted[p] = <<>>
          /\ CallIdx(p, "sync_configs.main") = {}
          /\ FindInbound(panel, InboundId) = <<fetched[p]>>

\* two candidates failed and rotate() has returned
C6_Witness ==
    \E p \in Procs :
       /\ AllCandidatesFailed(p)
       /\ Len(Probes(p)) = 2
       /\ pc[p] = "done"
       /\ result[p] = "no_valid_domain"

\* the inbound that invocation p fetched decodes and is not in Reality mode
FetchedNotReality(p) ==
    /\ fetched[p] # EmptyDict
    /\ pc[p] # "parse"
    /\ json_loads_ok(fetched[p]["streamSettings"])
    /\ LET ss == json_loads(fetched[p]["streamSettings"])
       IN  "security" \in DOMAIN ss => ss["security"] # "reality"

(***************************************************************************)
(* C7: when the fetched inbound's security mode is not 'reality' or is     *)
(* absent, rotate() returns at the guard: the inbound document is exactly  *)
(* as fetched, no pool is loaded, no domain is probed, nothing is          *)
(* generated and no document is posted to the panel.                       *)
(***************************************************************************)
C7_NotRealityAborts ==
    \A p \in Procs :
       FetchedNotReality(p) =>
          /\ pc[p] = "done"
          /\ result[p] = "not_reality"
          /\ exception[p] = "none"
          /\ inbound[p] = fetched[p]
          /\ domains[p] = <<>>
          /\ Probes(p) = <<>>
          /\ CallIdx(p, "generate_x25519_keys") = {}
          /\ CallIdx(p, "update_inbound") = {}
          /\ submitted[p] = <<>>
          /\ CallIdx(p, "sync_configs.main") = {}
          /\ FindInbound(panel, InboundId) = <<fetched[p]>>

\* rotate() has returned at the guard on an inbound with no security key
C7_Witness ==
    \E p \in Procs :
       /\ FetchedNotReality(p)
       /\ "security" \notin DOMAIN json_loads(fetched[p]["streamSettings"])
       /\ result[p] = "not_reality"

\* the keys the merge may write
MergedRealityKeys == {"serverNames", "shortIds", "target", "settings", "privateKey"}

(***************************************************************************)
(* C8: between the fetched and the posted document only serverNames,       *)
(* shortIds, target, settings.publicKey and privateKey of realitySettings  *)
(* change: every other top-level field of the inbound, every other key of  *)
(* the decoded stream settings, of realitySettings and of its settings has *)
(* the value it had, and no other key appears or disappears.               *)
(***************************************************************************)
C8_MergePreservesOtherFields ==
    \A p \in Procs :
       HasSubmitted(p) =>
          LET new == Sent(p)
              old == fetched[p]
              new_ss == json_loads(new["streamSettings"])
              old_ss == json_loads(old["streamSettings"])
              new_rs == new_ss["realitySettings"]
              old_rs == DictGet(old_ss, "realitySettings", EmptyDict)
              new_set == new_rs["settings"]
              old_set == DictGet(old_rs, "settings", EmptyDict)
          IN  /\ DOMAIN new = DOMAIN old
              /\ \A k \in DOMAIN old \ {"streamSettings"} : new[k] = old[k]
              /\ json_loads_ok(new["streamSettings"])
              /\ DOMAIN new_ss = DOMAIN old_ss \cup {"realitySettings"}
              /\ \A k \in DOMAIN old_ss \ {"realitySettings"} : new_ss[k] = old_ss[k]
              /\ DOMAIN new_rs = DOMAIN old_rs \cup MergedRealityKeys
              /\ \A k \in DOMAIN old_rs \ MergedRealityKeys : new_rs[k] = old_rs[k]
              /\ DOMAIN new_set = DOMAIN old_set \cup {"publicKey"}
              /\ \A k \in DOMAIN old_set \ {"publicKey"} : new_set[k] = old_set[k]

\* a document was posted whose fetched form held keys the merge does not
\* write, in realitySettings and in its settings
C8_Witness ==
    \E p \in Procs :
       /\ HasSubmitted(p)
       /\ "realitySettings" \in DOMAIN json_loads(fetched[p]["streamSettings"])
       /\ "show" \in DOMAIN RealityOf(fetched[p])
       /\ "settings" \in DOMAIN RealityOf(fetched[p])
       /\ "fingerprint" \in DOMAIN RealityOf(fetched[p])["settings"]
       /\ RealityOf(Sent(p))["serverNames"] # RealityOf(fetched[p])["serverNames"]

(***************************************************************************)
(* C9: in the posted document serverNames is the selected domain followed  *)
(* by "www." + domain exactly when the domain holds exactly one dot, and   *)
(* by nothing otherwise, and target is the domain followed by ":443".      *)
(***************************************************************************)
C9_ServerNamesAndTarget ==
    \A p \in Procs :
       HasSubmitted(p) =>
          LET rs == RealityOf(Sent(p))
              domain == selected_domain[p]
              dots == Cardinality({i \in 1..Len(domain) : domain[i] = "."})
          IN  /\ domain # <<>>
              /\ rs["serverNames"][1] = domain
              /\ dots = 1 => rs["serverNames"] = <<domain, <<"w", "w", "w", ".">> \o domain>>
              /\ dots # 1 => rs["serverNames"] = <<domain>>
              /\ rs["target"] = domain \o <<":", "4", "4", "3">>

\* a document was posted for a domain with two dots, without a sibling
C9_Witness ==
    \E p \in Procs :
       /\ HasSubmitted(p)
       /\ selected_domain[p] = D_s_cd
       /\ Len(RealityOf(Sent(p))["serverNames"]) = 1

\* the characters of a hex string
HexChars == {HexDigits[i] : i \in 1..Len(HexDigits)}

(***************************************************************************)
(* C10: in the posted document shortIds is exactly the list that           *)
(* generate_short_ids returned in this invocation, 4 identifiers of 8 hex  *)
(* characters each: the prior identifiers are replaced, and one of them is *)
(* present only if it was generated again.                                 *)
(***************************************************************************)
C10_ShortIdsReplaced ==
    \A p \in Procs :
       HasSubmitted(p) =>
          LET ids == RealityOf(Sent(p))["shortIds"]
              old == DictGet(DictGet(json_loads(fetched[p]["streamSettings"]),
                                     "realitySettings", EmptyDict), "shortIds", <<>>)
          IN  /\ ids = new_short_ids[p]
              /\ \E seed \in 1..NumSeeds : ids = generate_short_ids(ShortIdCount, seed)
              /\ Len(ids) = 4
              /\ \A i \in 1..Len(ids) :
                    /\ Len(ids[i]) = 8
                    /\ \A j \in 1..Len(ids[i]) : ids[i][j] \in HexChars
              /\ \A i \in 1..Len(old) :
                    (\E j \in 1..Len(ids) : ids[j] = old[i])
                       => \E j \in 1..Len(new_short_ids[p]) : new_short_ids[p][j] = old[i]
              /\ Cardinality(OkIdx(p, "generate_short_ids")) = 1

\* a document was posted that dropped a prior identifier and holds another
\* one only because it was generated again
C10_Witness ==
    \E p \in Procs :
       /\ HasSubmitted(p)
       /\ "realitySettings" \in DOMAIN json_loads(fetched[p]["streamSettings"])
       /\ LET ids == RealityOf(Sent(p))["shortIds"]
              old == RealityOf(fetched[p])["shortIds"]
          IN  /\ \E j \in 1..Len(ids) : ids[j] = old[1]
              /\ \A j \in 1..Len(ids) : ids[j] # old[2]

\* private_key_obj.public_key(): the public half that belongs to a private key
PublicOf(private) == KeyString("public", private.scalar)

\* the realitySettings of the inbound that invocation p fetched ({} when the
\* stream settings hold none)
FetchedReality(p) ==
    DictGet(json_loads(fetched[p]["streamSettings"]), "realitySettings", EmptyDict)

(***************************************************************************)
(* C11: in the posted document settings.publicKey is the public key and    *)
(* privateKey the private key of the one pair generate_x25519_keys         *)
(* returned in this invocation, both halves of the same pair and not the   *)
(* previous keys; a realitySettings without 'settings' gets one that holds *)
(* only the public key, and an existing 'settings' keeps its other keys.   *)
(***************************************************************************)
C11_KeysOfOneFreshPair ==
    \A p \in Procs :
       HasSubmitted(p) =>
          LET rs == RealityOf(Sent(p))
              old == FetchedReality(p)
          IN  /\ Cardinality(CallIdx(p, "generate_x25519_keys")) = 1
              /\ Cardinality(OkIdx(p, "generate_x25519_keys")) = 1
              /\ rs["privateKey"] = new_keys[p].private
              /\ rs["settings"]["publicKey"] = new_keys[p].public
              /\ rs["privateKey"].half = "private"
              /\ rs["settings"]["publicKey"].half = "public"
              /\ rs["settings"]["publicKey"] = PublicOf(rs["privateKey"])
              /\ rs["privateKey"].scalar \in 1..NumSeeds
              /\ "privateKey" \in DOMAIN old => rs["privateKey"] # old["privateKey"]
              /\ "settings" \notin DOMAIN old =>
                    DOMAIN rs["settings"] = {"publicKey"}
              /\ "settings" \in DOMAIN old =>
                    /\ DOMAIN rs["settings"] = DOMAIN old["settings"] \cup {"publicKey"}
                    /\ \A k \in DOMAIN old["settings"] \ {"publicKey"} :
                          rs["settings"][k] = old["settings"][k]

\* a document was posted for an inbound whose realitySettings held no
\* 'settings'
C11_Witness ==
    \E p \in Procs :
       /\ HasSubmitted(p)
       /\ "shortIds" \in DOMAIN FetchedReality(p)
       /\ "settings" \notin DOMAIN FetchedReality(p)
       /\ RealityOf(Sent(p))["settings"] = [publicKey |-> new_keys[p].public]

(***************************************************************************)
(* C12: sync_configs.main() is called exactly once after update_inbound    *)
(* returned True and never when the update failed or was not reached; a    *)
(* failure of sync_configs.main() does not propagate out of rotate() and   *)
(* leaves the outcome of the rotation "success".                           *)
(***************************************************************************)
C12_SyncOnceAfterSuccessAndContained ==
    \A p \in Procs :
       LET syncs == CallIdx(p, "sync_configs.main")
           okUpdates == OkIdx(p, "update_inbound")
       IN  /\ Cardinality(syncs) <= 1
           /\ \A s \in syncs : \E u \in okUpdates : u < s
           /\ okUpdates = {} => syncs = {}
           /\ (okUpdates # {} /\ pc[p] = "done") => Cardinality(syncs) = 1
           /\ \A s \in syncs :
                 /\ result[p] = "success"
                 /\ exception[p] = "none"

\* the part of C12 that the code keeps: one call after a successful update,
\* none otherwise, and the outcome stays "success"
C12_SyncOnceAfterSuccess ==
    \A p \in Procs :
       LET syncs == CallIdx(p, "sync_configs.main")
           okUpdates == OkIdx(p, "update_inbound")
       IN  /\ Cardinality(syncs) <= 1
           /\ \A s \in syncs : \E u \in okUpdates : u < s
           /\ okUpdates = {} => syncs = {}
           /\ (okUpdates # {} /\ pc[p] = "done") => Cardinality(syncs) = 1
           /\ syncs # {} => result[p] = "success"

\* the functions of rotate() that talk to a remote side
RemoteCalls ==
    {"get_panel_session", "get_inbound_data", "check_domain_tls13", "update_inbound",
     "sync_configs.main"}

\* the position of each remote function in the one pass of rotate()
StepRank(fn) ==
    CASE fn = "get_panel_session"  -> 1
      [] fn = "get_inbound_data"   -> 2
      [] fn = "check_domain_tls13" -> 3
      [] fn = "update_inbound"     -> 4
      [] fn = "sync_configs.main"  -> 5
      [] OTHER                     -> 0

(***************************************************************************)
(* C13: rotate() never retries: get_panel_session, get_inbound_data and    *)
(* update_inbound are each called at most once, the remote calls are made  *)
(* one after the other in the order of the pass, and a step that failed is *)
(* the last call of the invocation: rotate() has ended and no fetch,       *)
(* probe, submit or publish follows it.                                    *)
(***************************************************************************)
C13_NoRetryStopAtFirstFailure ==
    \A p \in Procs :
       LET log == calls[p]
           remote == {i \in 1..Len(log) : log[i].fn \in RemoteCalls}
       IN  /\ \A fn \in {"get_panel_session", "get_inbound_data", "update_inbound",
                          "sync_configs.main"} :
                 Cardinality(CallIdx(p, fn)) <= 1
           /\ Len(submitted[p]) <= 1
           /\ \A i, j \in remote : i < j => StepRank(log[i].fn) <= StepRank(log[j].fn)
           /\ \A i \in 1..Len(log) :
                 (log[i].fn # "check_domain_tls13" /\ ~log[i].ret) =>
                    /\ i = Len(log)
                    /\ pc[p] = "done"
           /\ result[p] \notin {"running", "success"} =>
                 /\ pc[p] = "done"
                 /\ CallIdx(p, "sync_configs.main") = {}
                 /\ result[p] # "update_failed" => CallIdx(p, "update_inbound") = {}
           /\ result[p] \in {"no_session"} => Len(log) = 1
           /\ result[p] \in {"no_inbound"} => Len(log) = 2
           /\ result[p] \in {"parse_error", "not_reality", "no_domains"} =>
                 /\ Len(log) = 2
                 /\ Probes(p) = <<>>
           /\ result[p] = "no_valid_domain" =>
                 \A i \in 3..Len(log) : log[i].fn = "check_domain_tls13" /\ ~log[i].ret

\* an invocation ended at a failed fetch, after one login and one fetch
C13_Witness ==
    \E p \in Procs :
       /\ pc[p] = "done"
       /\ result[p] = "no_inbound"
       /\ Len(calls[p]) = 2
       /\ calls[p][1].fn = "get_panel_session" /\ calls[p][1].ret
       /\ calls[p][2].fn = "get_inbound_data" /\ ~calls[p][2].ret

(***************************************************************************)
(* C14: check_domain_tls13 returns True exactly when the connection and    *)
(* the handshake complete and the negotiated version is "TLSv1.3"; every   *)
(* other version and every raised error (timeout, SSL error, name          *)
(* resolution, connection refused, any other) gives False, and the call    *)
(* always returns a boolean: no exception leaves it.                       *)
(***************************************************************************)
C14_TrueOnlyForTls13 ==
    \A p \in Procs :
       \A i \in 1..Len(calls[p]) :
          LET c == calls[p][i]
          IN  c.fn = "check_domain_tls13" =>
                 /\ c.ret \in BOOLEAN
                 /\ c.ret <=> (c.outcome.raised = "none" /\ c.outcome.version = "TLSv1.3")
                 /\ c.outcome.raised # "none" => c.ret = FALSE
                 /\ (c.outcome.raised = "none" /\ c.outcome.version # "TLSv1.3") =>
                       c.ret = FALSE
                 /\ exception[p] = "none"

\* one name was refused for its version and the next one for a raised error
C14_Witness ==
    \E p \in Procs :
       /\ Len(calls[p]) = 2
       /\ calls[p][1].outcome = [raised |-> "none", version |-> "TLSv1.2"]
       /\ calls[p][1].ret = FALSE
       /\ calls[p][2].outcome.raised = "OSError"
       /\ calls[p][2].ret = FALSE

\* the normalization C15 describes: one leading "www." removed, nothing else
StripLeadingWww(s) ==
    IF Len(s) >= Len(WWW) /\ SubSeq(s, 1, Len(WWW)) = WWW
    THEN SubSeq(s, Len(WWW) + 1, Len(s))
    ELSE s

\* the candidate list when two names are the same domain exactly when they
\* are equal after one leading "www." is removed from each
LeadingOnlyCandidates(ds, current) ==
    LET keep(d) == StripLeadingWww(d) # StripLeadingWww(current)
        filtered == SelectSeq(ds, keep)
    IN  IF filtered = <<>> THEN ds ELSE filtered

(***************************************************************************)
(* C15: the normalization removes only one leading "www.": the candidate   *)
(* list holds the pool entries that differ from the current domain after   *)
(* one leading "www." is removed from each (the whole pool when none       *)
(* does), and the name a candidate is probed under is the candidate with   *)
(* one leading "www." removed, a "www." elsewhere in it left in place.     *)
(***************************************************************************)
C15_OnlyLeadingWwwStripped ==
    \A p \in Procs :
       HasCandidates(p) =>
          /\ SameEntries(available_domains[p],
                         LeadingOnlyCandidates(domains[p], current_main_sni[p]))
          /\ \A i \in 1..Len(Probes(p)) :
                Probes(p)[i].arg = StripLeadingWww(available_domains[p][i])

\* the pool entry whose probe passed, as the pool writes it
SelectedEntry(p) == available_domains[p][Len(Probes(p))]

\* the entries of the pool invocation p loaded
PoolEntries(p) == {domains[p][i] : i \in 1..Len(domains[p])}

ApplyRotation(doc, snis, short_ids, dest, keys) ==
    LET ss == json_loads(doc["streamSettings"])
        rs == DictGet(ss, "realitySettings", EmptyDict)
    IN  PackBack(doc, ss, MergeReality(rs, snis, short_ids, dest, keys))

(***************************************************************************)
(* C17: the merge is idempotent: the posted document is the merge of the   *)
(* fetched one, and the merge applied to the posted document with the same *)
(* server names, target, key pair and short ids gives the posted document  *)
(* again, the same server names, target, short ids and key fields, with    *)
(* every other top-level field as in the fetched document.                 *)
(***************************************************************************)
C17_MergeIdempotent ==
    \A p \in Procs :
       HasSubmitted(p) =>
          LET first == ApplyRotation(fetched[p], new_snis[p], new_short_ids[p],
                                     new_dest[p], new_keys[p])
              second == ApplyRotation(first, new_snis[p], new_short_ids[p],
                                      new_dest[p], new_keys[p])
          IN  /\ Sent(p) = first
              /\ json_loads_ok(first["streamSettings"])
              /\ MergeOk(RealityOf(first))
              /\ second = first
              /\ RealityOf(second)["serverNames"] = new_snis[p]
              /\ RealityOf(second)["target"] = new_dest[p]
              /\ RealityOf(second)["shortIds"] = new_short_ids[p]
              /\ RealityOf(second)["privateKey"] = new_keys[p].private
              /\ RealityOf(second)["settings"]["publicKey"] = new_keys[p].public
              /\ DOMAIN second = DOMAIN fetched[p]
              /\ \A k \in DOMAIN fetched[p] \ {"streamSettings"} :
                    second[k] = fetched[p][k]

\* a document was posted whose first merge created 'settings' and changed
\* the server names, the keys and the layout of the stream settings text
C17_Witness ==
    \E p \in Procs :
       /\ HasSubmitted(p)
       /\ "settings" \notin DOMAIN FetchedReality(p)
       /\ "serverNames" \in DOMAIN FetchedReality(p)
       /\ Sent(p)["streamSettings"] # fetched[p]["streamSettings"]
       /\ Sent(p)["streamSettings"].fmt # fetched[p]["streamSettings"].fmt
       /\ Len(new_snis[p]) = 2

\* the panel stored the document of invocation p's update call
Stored(p) ==
    \E u \in CallIdx(p, "update_inbound") :
       calls[p][u].outcome \in {"ok", "response_error"}

\* the inbound the panel holds is, whole, the document invocation p posted:
\* domain, target, key pair and short ids are all the ones p made
HoldsOutputOf(p) ==
    /\ HasSubmitted(p)
    /\ Stored(p)
    /\ FindInbound(panel, InboundId) = <<Sent(p)>>
    /\ RealityOf(Sent(p))["serverNames"] = new_snis[p]
    /\ RealityOf(Sent(p))["target"] = new_dest[p]
    /\ RealityOf(Sent(p))["shortIds"] = new_short_ids[p]
    /\ RealityOf(Sent(p))["privateKey"] = new_keys[p].private
    /\ RealityOf(Sent(p))["settings"]["publicKey"] = new_keys[p].public

\* in every state the panel holds what it held at the start or the whole
\* output of one invocation
PanelHoldsOneWholeDocument ==
    IF \E p \in Procs : Stored(p)
    THEN \E p \in Procs : HoldsOutputOf(p)
    ELSE panel = panel0

\* a step in which the panel stores an update leaves it holding exactly the
\* document of that update, whatever it held before
LastWriteWins ==
    \A p \in Procs :
       (~Stored(p) /\ Stored(p)') =>
          /\ FindInbound(panel', InboundId) = <<inbound[p]>>
          /\ submitted'[p] = <<inbound[p]>>
          /\ \A q \in Procs \ {p} : submitted'[q] = submitted[q]

(***************************************************************************)
(* C18: with two overlapping invocations of rotate() nothing excludes one  *)
(* from the other: each update the panel stores replaces what the panel    *)
(* held, whoever wrote it (last write wins), and in every interleaving the *)
(* panel holds the whole output of one invocation, its domain, target, key *)
(* pair and short ids, or what it held at the start, never a mixture.      *)
(***************************************************************************)
C18_LastWriteWinsWholeDocument ==
    /\ []PanelHoldsOneWholeDocument
    /\ [][LastWriteWins]_vars

\* both invocations fetched the same snapshot, both updates were accepted
\* and both report success; the panel holds the output of invocation 2 and
\* the different output of invocation 1 is lost
C18_Witness ==
    /\ fetched[1] = fetched[2]
    /\ fetched[1] = RacePanel[2]
    /\ result[1] = "success" /\ result[2] = "success"
    /\ pc[1] = "done" /\ pc[2] = "done"
    /\ HoldsOutputOf(2)
    /\ Sent(1) # Sent(2)
    /\ RealityOf(Sent(1))["serverNames"][1] # RealityOf(Sent(2))["serverNames"][1]
    /\ RealityOf(Sent(1))["privateKey"] # RealityOf(Sent(2))["privateKey"]
    /\ ~HoldsOutputOf(1)

(***************************************************************************)
(* C19: the fallback to the whole pool is decided by the filter alone,     *)
(* before any probe: when some pool entry differs from the current domain  *)
(* the candidates are the entries that differ, and when every one of them  *)
(* has failed its probe rotate() ends with the no-valid-domain failure: it *)
(* has not probed the current domain, selects nothing and posts nothing,   *)
(* even when the current domain is in the pool.                            *)
(***************************************************************************)
C19_NoFallbackAfterValidation ==
    \A p \in Procs :
       (HasCandidates(p) /\ SomeOtherDomain(p)) =>
          /\ SameEntries(available_domains[p],
                         FilterDomains(domains[p], current_main_sni[p]))
          /\ \A i \in 1..Len(Probes(p)) : Probes(p)[i].arg # current_main_sni[p]
          /\ AllCandidatesFailed(p) =>
                /\ pc[p] \in {"selected", "done"}
                /\ pc[p] = "done" => result[p] = "no_valid_domain"
                /\ selected_domain[p] = <<>>
                /\ submitted[p] = <<>>

\* the part of C19 that holds whatever the pool: the candidate list is fixed
\* by the filter before the first probe, and once all of it has failed
\* rotate() ends without probing anything else
C19_FallbackDecidedByFilterOnly ==
    \A p \in Procs :
       (HasCandidates(p) /\ SomeOtherDomain(p)) =>
          /\ SameEntries(available_domains[p],
                         FilterDomains(domains[p], current_main_sni[p]))
          /\ Len(Probes(p)) <= Len(available_domains[p])
          /\ AllCandidatesFailed(p) =>
                /\ pc[p] \in {"selected", "done"}
                /\ pc[p] = "done" => result[p] = "no_valid_domain"
                /\ selected_domain[p] = <<>>
                /\ submitted[p] = <<>>

\* the name of the one probe of invocation p that returned True
Validated(p) == Probes(p)[Len(Probes(p))].arg

(***************************************************************************)
(* C20: every entry of serverNames in a posted document is the domain that *)
(* passed its probe in this invocation or "www." followed by it, the host  *)
(* of target is serverNames[0], the validated domain, and the "www."       *)
(* sibling is added without a probe of its own: no probe of it passed.     *)
(***************************************************************************)
C20_ServerNamesFromValidatedDomain ==
    \A p \in Procs :
       HasSubmitted(p) =>
          LET rs == RealityOf(Sent(p))
              names == rs["serverNames"]
          IN  /\ Probes(p) # <<>>
              /\ Probes(p)[Len(Probes(p))].ret
              /\ names # <<>>
              /\ \A i \in 1..Len(names) :
                    names[i] = Validated(p) \/ names[i] = WWW \o Validated(p)
              /\ names[1] = Validated(p)
              /\ HostOf(rs["target"]) = names[1]
              /\ \A i \in 2..Len(names) :
                    /\ names[i] = WWW \o Validated(p)
                    /\ \A j \in 1..Len(Probes(p)) :
                          Probes(p)[j].ret => Probes(p)[j].arg # names[i]

\* a document with the sibling "www.a.b" was posted after the one probe of
\* "a.b"; "www.a.b" was never probed
C20_Witness ==
    \E p \in Procs :
       /\ HasSubmitted(p)
       /\ RealityOf(Sent(p))["serverNames"] = <<D_ab, D_www_ab>>
       /\ Len(Probes(p)) = 1
       /\ Probes(p)[1].arg = D_ab
       /\ \A j \in 1..Len(Probes(p)) : Probes(p)[j].arg # D_www_ab

=============================================================================
